---- MODULE Spec2Model ----
(***************************************************************************)
(* Base Rush: the endless-runner engine of src/game/GameEngine.ts together *)
(* with the browser's animation-frame queue that drives it.                *)
(*                                                                         *)
(* Lengths, velocities, speeds and distances are fixed-point numbers in    *)
(* units of 1/SCALE pixel (the source computes them in floating point);    *)
(* times are whole milliseconds.                                           *)
(***************************************************************************)
EXTENDS Integers, Sequences, FiniteSets

VARIABLES
    engine,     \* the fields of the GameEngine instance
    frames,     \* the browser: requestAnimationFrame callbacks not yet run
    now,        \* the browser's clock, ms (performance.now / frame timestamp)
    rect,       \* canvas.getBoundingClientRect(), CSS pixels
    calls,      \* history: number of control-surface calls made
    ticks,      \* history: number of frame callbacks delivered
    lastOp,     \* history: the last operation and what its gameLoop did
    destroyed,  \* history: destroy() was called and start() not accepted since
    jumps,      \* history: jump() calls accepted since the last accepted start()
    released,   \* history: releaseJump() was called in the current airborne period
    spawns,     \* history: obstacles spawned since the last accepted start()
    notified,   \* history: what each onGameOver call of this run could read
    snapshot,   \* the presentation layer: the value its last getState() returned
    saved,      \* the persistence collaborator: the score payloads written to it
    overScreen  \* the mounted GameOverScreen: its refs, props, state and what it issued

vars == <<engine, frames, now, rect, calls, ticks, lastOp, destroyed, jumps,
          released, spawns, notified, snapshot, saved, overScreen>>

(* No game-over screen is mounted: the refs and state a mount starts with, *)
(* and nothing issued                                                     *)
NoGameOverScreen ==
    [ mounted |-> FALSE, wallet |-> FALSE, hasSaved |-> FALSE, hasProgressed |-> FALSE,
      saveError |-> FALSE, autoSaves |-> 0, retries |-> 0, failures |-> 0,
      progressions |-> 0 ]

(* What the presentation layer holds *)
screen == <<snapshot, saved, overScreen>>

----------------------------------------------------------------------------
(* Bounds of the exploration *)

MaxCalls == 3
MaxTicks == 6
CoinRate == 2
MaxElapsedMs == 90000
MaxSaves == 3

(* Fixed-point scale: 1 pixel = SCALE units *)
SCALE == 10 ^ 4

Px(n) == n * SCALE

Min(a, b) == IF a < b THEN a ELSE b
Max(a, b) == IF a > b THEN a ELSE b

(* animationFrameId: number | null *)
Null == 0

----------------------------------------------------------------------------
(* Inputs *)

(* The constructor's defaults, lines 121-127 *)
DefaultConfig ==
    [ initialSpeed      |-> 24000,      \* 2.4
      speedIncrement    |-> 10,         \* 0.001
      obstacleSpawnRate |-> 120,
      coinSpawnRate     |-> 60,
      gravity           |-> 6500,       \* 0.65
      jumpVelocity      |-> -135000 ]   \* -13.5

(* The configurations the engine is constructed with: the defaults with  *)
(* the caller's Partial<GameConfig> spread over them (line 128).         *)
Configs == { [DefaultConfig EXCEPT !.coinSpawnRate = CoinRate] }

(* A configuration with a weak jump impulse: a hop that lands within a few *)
(* ticks                                                                  *)
HopConfigs == { [DefaultConfig EXCEPT !.coinSpawnRate = CoinRate,
                                      !.jumpVelocity = -15000] }

(* A configuration with a high starting speed: obstacles and coins cross *)
(* the whole canvas within a few ticks                                   *)
FastConfigs == { [DefaultConfig EXCEPT !.coinSpawnRate = CoinRate,
                                       !.initialSpeed = 80 * SCALE] }

(* Milliseconds between one delivered frame and the event before it: a  *)
(* 60 Hz frame, a frame after a long stall (a hidden tab, a busy page). *)
FrameGaps == {16, 2600}

(* The frame gaps of a page that renders slowly and then stalls for long: *)
(* long enough to carry the run past the distance where speed ramps up   *)
SlowGaps == {1300, 40000}
ClockSteps == {100, 1900}

(* getBoundingClientRect() of the canvas, CSS pixels *)
Rects == { [width |-> 140, height |-> 300], [width |-> 140, height |-> 340] }

(* The canvas's rect when the engine is constructed *)
FirstRect == [width |-> 140, height |-> 300]

(* spawnObstacle's size classes by Math.random() roll, lines 468-480 *)
ObstacleKinds ==
    { [width |-> Px(28), height |-> Px(45)],
      [width |-> Px(36), height |-> Px(55)],
      [width |-> Px(44), height |-> Px(40)] }

----------------------------------------------------------------------------
(* Program constants *)

playerX == 100
playerWidth == 40
playerHeight == 60
groundMargin == 100
coinSize == 25
coinLift == 80
maxJumpHoldMs == 180
gracePeriodMs == 2600
graceDistance == 180
earlyRampMs == 14000
midRampMs == 42000
lateRampMs == 35000
gapEarly == 520
gapMid == 380
gapLate == 300
gapFloor == 260
rampStartDistance == 5000
rampSpanDistance == 3000
shakeMs == 250
flashMs == 220
postGameMs == 260
frameBaseMs == 16

----------------------------------------------------------------------------
(* setupCanvas: the ground level follows the canvas height *)
GroundYOf(r) == Px(r.height - groundMargin)

(* The engine right after the constructor *)
NewEngine(cfg, r) ==
    [ config |-> cfg,
      state  |-> [ isPlaying |-> FALSE, isPaused |-> FALSE, isGameOver |-> FALSE,
                   score |-> 0, coins |-> 0, distance |-> 0,
                   speed |-> cfg.initialSpeed ],
      player |-> [ x |-> Px(playerX), y |-> GroundYOf(r),
                   width |-> Px(playerWidth), height |-> Px(playerHeight),
                   velocityY |-> 0, isJumping |-> FALSE, groundY |-> GroundYOf(r) ],
      obstacles |-> << >>,
      coins |-> << >>,
      animationFrameId |-> Null,
      lastFrameTime |-> 0,
      gameSpeed |-> cfg.initialSpeed,
      obstacleSpawnTimer |-> 0,
      coinSpawnTimer |-> 0,
      speedLineTimer |-> 0,
      elapsedTimeMs |-> 0,
      obstacleDistanceSinceLast |-> 0,
      screenShakeTime |-> 0,
      screenFlashTime |-> 0,
      postGameEffectTime |-> 0,
      jumpHoldActive |-> FALSE,
      jumpHoldTime |-> 0,
      canvasWidth |-> Px(r.width) ]

InitWith(configs) ==
    /\ rect = FirstRect
    /\ \E cfg \in configs : engine = NewEngine(cfg, rect)
    /\ frames = [pending |-> {}, nextId |-> 1]
    /\ now = 0
    /\ calls = 0
    /\ ticks = 0
    /\ lastOp = [op |-> "new", ran |-> "none"]
    /\ destroyed = FALSE
    /\ jumps = 0
    /\ spawns = 0
    /\ notified = << >>
    /\ released = FALSE
    /\ snapshot = [taken |-> FALSE, alias |-> FALSE, value |-> engine.state]
    /\ saved = << >>
    /\ overScreen = NoGameOverScreen

Init == InitWith(Configs)

----------------------------------------------------------------------------
UpdatePlayerFullGravity(e, deltaTime) ==
    LET p == e.player
        holdingJump == p.isJumping /\ e.jumpHoldActive /\ e.jumpHoldTime < maxJumpHoldMs
        v1 == p.velocityY + e.config.gravity
        hold1 == IF holdingJump THEN e.jumpHoldTime + deltaTime ELSE e.jumpHoldTime
        y1 == p.y + v1
    IN  IF y1 >= p.groundY
        THEN [e EXCEPT !.player.y = p.groundY, !.player.velocityY = 0,
                       !.player.isJumping = FALSE,
                       !.jumpHoldActive = FALSE, !.jumpHoldTime = 0]
        ELSE [e EXCEPT !.player.y = y1, !.player.velocityY = v1,
                       !.jumpHoldTime = hold1]

UpdatePlayerNoLanding(e, deltaTime) ==
    LET p == e.player
        holdingJump == p.isJumping /\ e.jumpHoldActive /\ e.jumpHoldTime < maxJumpHoldMs
        gravity == IF holdingJump THEN (e.config.gravity * 35) \div 100
                   ELSE e.config.gravity
        v1 == p.velocityY + gravity
        hold1 == IF holdingJump THEN e.jumpHoldTime + deltaTime ELSE e.jumpHoldTime
    IN  [e EXCEPT !.player.y = p.y + v1, !.player.velocityY = v1,
                  !.jumpHoldTime = hold1]

(* updatePlayer: gravity (reduced while the jump is held), position, landing *)
UpdatePlayer(e, deltaTime) ==
    LET p == e.player
        holdingJump == p.isJumping /\ e.jumpHoldActive /\ e.jumpHoldTime < maxJumpHoldMs
        gravity == IF holdingJump THEN (e.config.gravity * 35) \div 100
                   ELSE e.config.gravity
        v1 == p.velocityY + gravity
        hold1 == IF holdingJump THEN e.jumpHoldTime + deltaTime ELSE e.jumpHoldTime
        y1 == p.y + v1
    IN  IF y1 >= p.groundY
        THEN [e EXCEPT !.player.y = p.groundY, !.player.velocityY = 0,
                       !.player.isJumping = FALSE,
                       !.jumpHoldActive = FALSE, !.jumpHoldTime = 0]
        ELSE [e EXCEPT !.player.y = y1, !.player.velocityY = v1,
                       !.jumpHoldTime = hold1]

(* lerp(a, b, clamp01(num / den)) of updateSpawning, for num >= 0, den > 0; *)
(* the interpolated part is kept to 1/100 pixel                            *)
LerpClamped(a, b, num, den) ==
    a + ((((b - a) \div 100) * Min(num, den)) \div den) * 100

TargetGapLateFromMid(elapsedTimeMs) ==
    LET timeSinceGrace == Max(0, elapsedTimeMs - gracePeriodMs)
    IN  IF timeSinceGrace <= earlyRampMs
        THEN LerpClamped(Px(gapEarly), Px(gapMid), timeSinceGrace, earlyRampMs)
        ELSE IF timeSinceGrace <= midRampMs
        THEN LerpClamped(Px(gapMid), Px(gapLate),
                         timeSinceGrace - earlyRampMs, midRampMs - earlyRampMs)
        ELSE LerpClamped(Px(gapMid), Px(gapFloor),
                         timeSinceGrace - midRampMs, lateRampMs)

(* The target travel gap between obstacles as a function of elapsed time *)
TargetGap(elapsedTimeMs) ==
    LET timeSinceGrace == Max(0, elapsedTimeMs - gracePeriodMs)
    IN  IF timeSinceGrace <= earlyRampMs
        THEN LerpClamped(Px(gapEarly), Px(gapMid), timeSinceGrace, earlyRampMs)
        ELSE IF timeSinceGrace <= midRampMs
        THEN LerpClamped(Px(gapMid), Px(gapLate),
                         timeSinceGrace - earlyRampMs, midRampMs - earlyRampMs)
        ELSE LerpClamped(Px(gapLate), Px(gapFloor),
                         timeSinceGrace - midRampMs, lateRampMs)

(* distance travelled in deltaTime ms at the current speed: speed * (dt / 16) *)
Travel(speed, deltaTime) == (speed * deltaTime) \div frameBaseMs

SpawnObstacleTunesRate(e, kind) ==
    [e EXCEPT !.obstacles = Append(@, [ x |-> e.canvasWidth, y |-> e.player.groundY,
                                        width |-> kind.width, height |-> kind.height ]),
              !.config.obstacleSpawnRate = Max(60, @ - 1)]

SpawnObstacle(e, kind) ==
    [e EXCEPT !.obstacles = Append(@, [ x |-> e.canvasWidth, y |-> e.player.groundY,
                                        width |-> kind.width, height |-> kind.height ])]

SpawnCoin(e) ==
    [e EXCEPT !.coins = Append(@, [ x |-> e.canvasWidth,
                                    y |-> e.player.groundY - Px(coinLift),
                                    width |-> Px(coinSize), height |-> Px(coinSize),
                                    collected |-> FALSE ])]

InGraceByTimeOnly(e) == e.elapsedTimeMs < gracePeriodMs

(* updateSpawning's grace test: too early in time or in distance *)
InGrace(e) ==
    e.elapsedTimeMs < gracePeriodMs \/ e.state.distance < Px(graceDistance)

UpdateSpawningKeepsAccumulator(e, deltaTime, kind) ==
    IF InGrace(e)
    THEN e
    ELSE LET since == e.obstacleDistanceSinceLast + Travel(e.gameSpeed, deltaTime)
             e1 == IF since >= Px(gapFloor)
                   THEN [SpawnObstacle(e, kind) EXCEPT !.obstacleDistanceSinceLast = since]
                   ELSE [e EXCEPT !.obstacleDistanceSinceLast = since]
             timer == e1.coinSpawnTimer + 1
         IN  IF timer >= e1.config.coinSpawnRate
             THEN [SpawnCoin(e1) EXCEPT !.coinSpawnTimer = 0]
             ELSE [e1 EXCEPT !.coinSpawnTimer = timer]

(* updateSpawning: grace period, distance-gap obstacles, tick-counted coins *)
UpdateSpawning(e, deltaTime, kind) ==
    IF InGrace(e)
    THEN e
    ELSE LET since == e.obstacleDistanceSinceLast + Travel(e.gameSpeed, deltaTime)
             minGap == Max(TargetGap(e.elapsedTimeMs), Px(gapFloor))
             e1 == IF since >= minGap
                   THEN [SpawnObstacle(e, kind) EXCEPT !.obstacleDistanceSinceLast = 0]
                   ELSE [e EXCEPT !.obstacleDistanceSinceLast = since]
             timer == e1.coinSpawnTimer + 1
         IN  IF timer >= e1.config.coinSpawnRate
             THEN [SpawnCoin(e1) EXCEPT !.coinSpawnTimer = 0]
             ELSE [e1 EXCEPT !.coinSpawnTimer = timer]

UpdateObstaclesKeepsAll(e) ==
    [e EXCEPT !.obstacles = [i \in 1..Len(e.obstacles) |->
                                [e.obstacles[i] EXCEPT !.x = @ - e.gameSpeed]]]

(* updateObstacles: every obstacle moves left; those wholly off-screen go *)
UpdateObstacles(e) ==
    LET moved == [i \in 1..Len(e.obstacles) |->
                     [e.obstacles[i] EXCEPT !.x = @ - e.gameSpeed]]
        OnScreen(o) == o.x + o.width > 0
    IN  [e EXCEPT !.obstacles = SelectSeq(moved, OnScreen)]

UpdateCoinsKeepsCollected(e) ==
    LET moved == [i \in 1..Len(e.coins) |->
                     IF e.coins[i].collected THEN e.coins[i]
                     ELSE [e.coins[i] EXCEPT !.x = @ - e.gameSpeed]]
        Kept(c) == c.x + c.width > 0
    IN  [e EXCEPT !.coins = SelectSeq(moved, Kept)]

(* updateCoins: uncollected coins move left; collected and off-screen go *)
UpdateCoins(e) ==
    LET moved == [i \in 1..Len(e.coins) |->
                     IF e.coins[i].collected THEN e.coins[i]
                     ELSE [e.coins[i] EXCEPT !.x = @ - e.gameSpeed]]
        Kept(c) == c.x + c.width > 0 /\ ~c.collected
    IN  [e EXCEPT !.coins = SelectSeq(moved, Kept)]

(* isColliding: strict overlap of two axis-aligned rectangles *)
IsColliding(rect1, rect2) ==
    /\ rect1.x < rect2.x + rect2.width
    /\ rect1.x + rect1.width > rect2.x
    /\ rect1.y < rect2.y + rect2.height
    /\ rect1.y + rect1.height > rect2.y

HitboxIsWholeObstacle(obstacle) ==
    [ x |-> obstacle.x, y |-> obstacle.y,
      width |-> obstacle.width, height |-> obstacle.height ]

(* The inset hitbox of an obstacle: 10% in from each side, 5% down, 90% high *)
Hitbox(obstacle) ==
    [ x |-> obstacle.x + obstacle.width \div 10,
      y |-> obstacle.y + (obstacle.height * 5) \div 100,
      width |-> (obstacle.width * 8) \div 10,
      height |-> (obstacle.height * 9) \div 10 ]

GameOverKeepsPlaying(e) ==
    [e EXCEPT !.state.isGameOver = TRUE,
              !.screenShakeTime = shakeMs, !.screenFlashTime = flashMs,
              !.postGameEffectTime = postGameMs]

GameOverOnlyStops(e) ==
    [e EXCEPT !.state.isPlaying = FALSE,
              !.screenShakeTime = shakeMs, !.screenFlashTime = flashMs,
              !.postGameEffectTime = postGameMs]

(* gameOver *)
GameOver(e) ==
    [e EXCEPT !.state.isGameOver = TRUE, !.state.isPlaying = FALSE,
              !.screenShakeTime = shakeMs, !.screenFlashTime = flashMs,
              !.postGameEffectTime = postGameMs]

(* The coins checkCollisions collects: not yet collected, overlapping the player *)
Collectable(e) ==
    { i \in 1..Len(e.coins) : ~e.coins[i].collected /\ IsColliding(e.player, e.coins[i]) }

CheckCollisionsCollectsOne(e) ==
    IF \E i \in 1..Len(e.obstacles) : IsColliding(e.player, Hitbox(e.obstacles[i]))
    THEN GameOver(e)
    ELSE IF Collectable(e) = {}
    THEN e
    ELSE LET first == CHOOSE i \in Collectable(e) : \A j \in Collectable(e) : i <= j
         IN  [e EXCEPT !.coins[first].collected = TRUE, !.state.coins = @ + 1]

CheckCollisionsCollectsOnHit(e) ==
    LET collected == [e EXCEPT !.coins = [i \in 1..Len(e.coins) |->
                                             IF i \in Collectable(e)
                                             THEN [e.coins[i] EXCEPT !.collected = TRUE]
                                             ELSE e.coins[i]],
                               !.state.coins = @ + Cardinality(Collectable(e))]
    IN  IF \E i \in 1..Len(e.obstacles) : IsColliding(e.player, Hitbox(e.obstacles[i]))
        THEN GameOver(collected)
        ELSE collected

(* checkCollisions: the first obstacle hit ends the run and returns; otherwise *)
(* every overlapping uncollected coin is collected                            *)
CheckCollisions(e) ==
    IF \E i \in 1..Len(e.obstacles) : IsColliding(e.player, Hitbox(e.obstacles[i]))
    THEN GameOver(e)
    ELSE [e EXCEPT !.coins = [i \in 1..Len(e.coins) |->
                                 IF i \in Collectable(e)
                                 THEN [e.coins[i] EXCEPT !.collected = TRUE]
                                 ELSE e.coins[i]],
                   !.state.coins = @ + Cardinality(Collectable(e))]

ComputeScoreBeforeCoins(distance, coins) ==
    distance \div Px(10) + (IF coins > 0 THEN coins - 1 ELSE 0) * 10

(* Math.floor(distance / 10) + coins * 10 *)
ComputeScore(distance, coins) == distance \div Px(10) + coins * 10

SpeedGainEveryTick(e, distance) == e.config.speedIncrement

(* The speed gained in one tick once the distance threshold is passed *)
SpeedGain(e, distance) ==
    IF distance >= Px(rampStartDistance)
    THEN LET ramp == Min(SCALE, (distance - Px(rampStartDistance)) \div rampSpanDistance)
             rampFactor == 3500 + (6500 * ramp) \div SCALE
         IN  (e.config.speedIncrement * rampFactor) \div SCALE
    ELSE 0

(* updateSpeedLines, the timer only *)
SpeedLineTimer(e, deltaTime) ==
    LET t == e.speedLineTimer + deltaTime
    IN  IF t * Max(SCALE, e.gameSpeed \div 2) > 120 * SCALE THEN 0 ELSE t

(* updateScreenEffects *)
UpdateScreenEffects(e, deltaTime) ==
    [e EXCEPT !.screenShakeTime = Max(0, @ - deltaTime),
              !.screenFlashTime = Max(0, @ - deltaTime)]

UpdateScoreAssignsDistance(e, deltaTime) ==
    LET distance == Travel(e.gameSpeed, deltaTime)
    IN  [e EXCEPT !.state.distance = distance,
                  !.state.score = ComputeScore(distance, e.state.coins),
                  !.gameSpeed = @ + SpeedGain(e, distance),
                  !.state.speed = e.gameSpeed + SpeedGain(e, distance)]

(* update's score and difficulty step: distance, score, speed *)
UpdateScore(e, deltaTime) ==
    LET distance == e.state.distance + Travel(e.gameSpeed, deltaTime)
    IN  [e EXCEPT !.state.distance = distance,
                  !.state.score = ComputeScore(distance, e.state.coins),
                  !.gameSpeed = @ + SpeedGain(e, distance),
                  !.state.speed = e.gameSpeed + SpeedGain(e, distance)]

(* update's effects step: speed lines, screen shake and flash *)
UpdateEffects(e, deltaTime) ==
    UpdateScreenEffects([e EXCEPT !.speedLineTimer = SpeedLineTimer(e, deltaTime)],
                        deltaTime)

(* update's steps in order: clock, player, spawning, movement, collisions, *)
(* score and difficulty, effects                                          *)
Simulate(e, deltaTime, kind) ==
    UpdateEffects(
      UpdateScore(
        CheckCollisions(
          UpdateCoins(
            UpdateObstacles(
              UpdateSpawning(
                UpdatePlayer([e EXCEPT !.elapsedTimeMs = @ + deltaTime],
                             deltaTime),
                deltaTime, kind)))),
        deltaTime),
      deltaTime)

(* update's steps before checkCollisions: clock, player, spawning, movement *)
Moved(e, deltaTime, kind) ==
    UpdateCoins(
      UpdateObstacles(
        UpdateSpawning(
          UpdatePlayer([e EXCEPT !.elapsedTimeMs = @ + deltaTime], deltaTime),
          deltaTime, kind)))

(* checkCollisions would invoke a callback of events: onGameOver from *)
(* gameOver(), or onCoinCollected for a coin                          *)
Notifies(e) ==
    \/ \E i \in 1..Len(e.obstacles) : IsColliding(e.player, Hitbox(e.obstacles[i]))
    \/ Collectable(e) # {}

(* checkCollisions up to the first callback it invokes, when that callback *)
(* throws: gameOver()'s assignments, or the first coin's, are made; the    *)
(* exception leaves the loop                                               *)
CheckCollisionsThrowing(e) ==
    IF \E i \in 1..Len(e.obstacles) : IsColliding(e.player, Hitbox(e.obstacles[i]))
    THEN GameOver(e)
    ELSE LET first == CHOOSE i \in Collectable(e) : \A j \in Collectable(e) : i <= j
         IN  [e EXCEPT !.coins[first].collected = TRUE, !.state.coins = @ + 1]

(* update: one simulation tick, unless paused or ended *)
Update(e, deltaTime, kind) ==
    IF e.state.isPaused \/ e.state.isGameOver THEN e
    ELSE Simulate(e, deltaTime, kind)

----------------------------------------------------------------------------
(* The browser's frame queue *)

RequestAnimationFrame(f) ==
    [f EXCEPT !.pending = @ \union {f.nextId}, !.nextId = @ + 1]

CancelAnimationFrame(f, id) == [f EXCEPT !.pending = @ \ {id}]

(* What a gameLoop invocation did, for the history variable *)
Ran(e) ==
    IF e.state.isPaused THEN "paused"
    ELSE IF e.state.isGameOver THEN "effects"
    ELSE "update"

GameLoopIgnoresPause(e) == FALSE

(* gameLoop's first line: a paused engine returns at once *)
GameLoopReturnsEarly(e) == e.state.isPaused

AdvanceSimulatesAfterEnd(e, currentTime, deltaTime, kind) ==
    Simulate([e EXCEPT !.lastFrameTime = currentTime], deltaTime, kind)

(* gameLoop's simulation part: the clock reference, then update() or, once *)
(* the run has ended, the post-end effect timers                           *)
Advance(e, currentTime, deltaTime, kind) ==
    IF ~e.state.isGameOver
    THEN Update([e EXCEPT !.lastFrameTime = currentTime], deltaTime, kind)
    ELSE [UpdateScreenEffects(e, deltaTime)
             EXCEPT !.lastFrameTime = currentTime,
                    !.postGameEffectTime = Max(0, @ - deltaTime)]

ScheduleAlways(e, f) ==
    [e |-> [e EXCEPT !.animationFrameId = f.nextId],
     f |-> RequestAnimationFrame(f)]

(* gameLoop's scheduling part: stop after the post-end window, else request *)
(* the next frame                                                           *)
Schedule(e, f) ==
    IF e.state.isGameOver /\ e.postGameEffectTime <= 0
    THEN IF e.animationFrameId # Null
         THEN [e |-> [e EXCEPT !.animationFrameId = Null],
               f |-> CancelAnimationFrame(f, e.animationFrameId)]
         ELSE [e |-> e, f |-> f]
    ELSE [e |-> [e EXCEPT !.animationFrameId = f.nextId],
          f |-> RequestAnimationFrame(f)]

(* gameLoop(currentTime): returns the engine and the frame queue after it *)
GameLoop(e, f, currentTime, kind) ==
    IF GameLoopReturnsEarly(e) THEN [e |-> e, f |-> f]
    ELSE Schedule(Advance(e, currentTime, currentTime - e.lastFrameTime, kind), f)

----------------------------------------------------------------------------
(* The control surface *)

Called(op, ran) ==
    /\ calls < MaxCalls
    /\ calls' = calls + 1
    /\ lastOp' = [op |-> op, ran |-> ran]

StartAlways(e) == TRUE

(* start's guard: a playing engine ignores the call *)
StartAccepted(e) == ~e.state.isPlaying

StartKeepsDistance(e, t) ==
    [e EXCEPT !.state.isPlaying = TRUE, !.state.isPaused = FALSE,
              !.state.isGameOver = FALSE, !.state.score = 0, !.state.coins = 0,
              !.state.speed = e.config.initialSpeed,
              !.obstacles = << >>, !.coins = << >>,
              !.player.y = e.player.groundY, !.player.velocityY = 0,
              !.player.isJumping = FALSE, !.gameSpeed = e.config.initialSpeed,
              !.obstacleSpawnTimer = 0, !.coinSpawnTimer = 0, !.speedLineTimer = 0,
              !.elapsedTimeMs = 0, !.obstacleDistanceSinceLast = 0,
              !.screenShakeTime = 0, !.screenFlashTime = 0, !.postGameEffectTime = 0,
              !.jumpHoldActive = FALSE, !.jumpHoldTime = 0,
              !.lastFrameTime = t]

(* start's resets, at time t = performance.now() *)
StartReset(e, t) ==
    [e EXCEPT !.state.isPlaying = TRUE, !.state.isPaused = FALSE,
              !.state.isGameOver = FALSE, !.state.score = 0, !.state.coins = 0,
              !.state.distance = 0, !.state.speed = e.config.initialSpeed,
              !.obstacles = << >>, !.coins = << >>,
              !.player.y = e.player.groundY, !.player.velocityY = 0,
              !.player.isJumping = FALSE, !.gameSpeed = e.config.initialSpeed,
              !.obstacleSpawnTimer = 0, !.coinSpawnTimer = 0, !.speedLineTimer = 0,
              !.elapsedTimeMs = 0, !.obstacleDistanceSinceLast = 0,
              !.screenShakeTime = 0, !.screenFlashTime = 0, !.postGameEffectTime = 0,
              !.jumpHoldActive = FALSE, !.jumpHoldTime = 0,
              !.lastFrameTime = t]

(* start(): resets the run and runs gameLoop(lastFrameTime) before returning *)
Start ==
    /\ UNCHANGED <<now, rect, ticks, screen>>
    /\ IF StartAccepted(engine)
       THEN \E kind \in ObstacleKinds :
              LET r == GameLoop(StartReset(engine, now), frames, now, kind)
              IN  /\ engine' = r.e
                  /\ frames' = r.f
                  /\ destroyed' = FALSE
                  /\ jumps' = 0
                  /\ released' = FALSE
                  /\ spawns' = 0
                  /\ notified' = << >>
                  /\ Called("start", "update")
       ELSE /\ UNCHANGED <<engine, frames, destroyed, jumps, released, spawns, notified>>
            /\ Called("startIgnored", "none")

ResumeKeepsClock(e, t) == [e EXCEPT !.state.isPaused = FALSE]

(* togglePause's resuming branch: unpause and re-arm the clock reference *)
ResumeClock(e, t) == [e EXCEPT !.state.isPaused = FALSE, !.lastFrameTime = t]

(* What a getState() call made inside onGameOver returns: the state as    *)
(* gameOver() leaves it, inside checkCollisions; by names the caller of   *)
(* the gameLoop that got there                                            *)
Notice(e, by) ==
    [score |-> e.state.score, coins |-> e.state.coins,
     distance |-> e.state.distance, by |-> by]

(* togglePause's guard *)
TogglePauseAccepted(e) == e.state.isPlaying /\ ~e.state.isGameOver

(* togglePause(): flips isPaused; resuming re-arms the clock and runs gameLoop *)
TogglePause ==
    /\ UNCHANGED <<now, rect, ticks, destroyed, jumps, spawns, screen>>
    /\ IF TogglePauseAccepted(engine)
       THEN IF engine.state.isPaused
            THEN \E kind \in ObstacleKinds :
                   LET r == GameLoop(ResumeClock(engine, now), frames, now, kind)
                   IN  /\ engine' = r.e
                       /\ frames' = r.f
                       /\ released' = (released /\ r.e.player.isJumping)
                       /\ notified' =
                            IF r.e.state.isGameOver
                            THEN Append(notified,
                                        Notice(CheckCollisions(
                                                 Moved(ResumeClock(engine, now), 0, kind)),
                                               "resume"))
                            ELSE notified
                       /\ Called("resume", "update")
            ELSE /\ engine' = [engine EXCEPT !.state.isPaused = TRUE]
                 /\ UNCHANGED <<frames, released, notified>>
                 /\ Called("pause", "none")
       ELSE /\ UNCHANGED <<engine, frames, released, notified>>
            /\ Called("togglePauseIgnored", "none")

JumpWhilePaused(e) == e.state.isPlaying /\ ~e.state.isGameOver /\ ~e.player.isJumping

JumpWhileAirborne(e) == e.state.isPlaying /\ ~e.state.isPaused /\ ~e.state.isGameOver

(* jump's two guards *)
JumpAccepted(e) ==
    /\ e.state.isPlaying /\ ~e.state.isPaused /\ ~e.state.isGameOver
    /\ ~e.player.isJumping

(* jump(): the impulse is assigned, not added *)
Jump ==
    /\ UNCHANGED <<now, rect, ticks, frames, destroyed, spawns, notified, screen>>
    /\ IF JumpAccepted(engine)
       THEN /\ engine' = [engine EXCEPT !.player.velocityY = engine.config.jumpVelocity,
                                        !.player.isJumping = TRUE,
                                        !.jumpHoldActive = TRUE,
                                        !.jumpHoldTime = 0]
            /\ jumps' = jumps + 1
            /\ released' = FALSE
            /\ Called("jump", "none")
       ELSE /\ UNCHANGED <<engine, jumps, released>>
            /\ Called("jumpIgnored", "none")

ReleasedKeepsHold(e) == e

(* releaseJump()'s assignment *)
Released(e) == [e EXCEPT !.jumpHoldActive = FALSE]

(* releaseJump() *)
ReleaseJump ==
    /\ UNCHANGED <<now, rect, ticks, frames, destroyed, jumps, spawns, notified, screen>>
    /\ engine' = Released(engine)
    /\ released' = engine.player.isJumping
    /\ Called("releaseJump", "none")

HandleResizeKeepsY ==
    /\ UNCHANGED <<now, ticks, frames, destroyed, jumps, spawns, notified, released, screen>>
    /\ \E r \in Rects :
         /\ rect' = r
         /\ engine' = [engine EXCEPT !.canvasWidth = Px(r.width),
                                     !.player.groundY = GroundYOf(r)]
    /\ Called("handleResize", "none")

(* handleResize() -> setupCanvas(): the canvas takes the size of its rect *)
HandleResize ==
    /\ UNCHANGED <<now, ticks, frames, destroyed, jumps, spawns, notified, released, screen>>
    /\ \E r \in Rects :
         /\ rect' = r
         /\ engine' = [engine EXCEPT !.canvasWidth = Px(r.width),
                                     !.player.groundY = GroundYOf(r),
                                     !.player.y = GroundYOf(r)]
    /\ Called("handleResize", "none")

(* destroy(): cancels the frame animationFrameId names, marks not playing *)
Destroy ==
    /\ UNCHANGED <<now, rect, ticks, jumps, spawns, notified, released, screen>>
    /\ frames' = IF engine.animationFrameId # Null
                 THEN CancelAnimationFrame(frames, engine.animationFrameId)
                 ELSE frames
    /\ engine' = [engine EXCEPT !.state.isPlaying = FALSE]
    /\ destroyed' = TRUE
    /\ Called("destroy", "none")

(* The live tick just taken appended an obstacle: the last obstacle stands *)
(* one tick's movement left of the right edge                              *)
SpawnedObstacle(before, after) ==
    /\ Len(after.obstacles) > 0
    /\ after.obstacles[Len(after.obstacles)].x = before.canvasWidth - before.gameSpeed

(* The browser delivers one pending frame callback, gap ms after the last event *)
FrameAfter(gaps) ==
    /\ ticks < MaxTicks
    /\ \E id \in frames.pending, gap \in gaps, kind \in ObstacleKinds :
         LET r == GameLoop(engine, CancelAnimationFrame(frames, id), now + gap, kind)
         IN  /\ now' = now + gap
             /\ engine' = r.e
             /\ frames' = r.f
             /\ released' = (released /\ r.e.player.isJumping)
             /\ spawns' = IF Ran(engine) = "update" /\ SpawnedObstacle(engine, r.e)
                          THEN spawns + 1 ELSE spawns
             /\ notified' =
                  IF ~engine.state.isGameOver /\ r.e.state.isGameOver
                  THEN Append(notified,
                              Notice(CheckCollisions(
                                       Moved([engine EXCEPT !.lastFrameTime = now + gap],
                                             now + gap - engine.lastFrameTime, kind)),
                                     "frame"))
                  ELSE notified
             /\ lastOp' = [op |-> "frame", ran |-> Ran(engine)]
    /\ ticks' = ticks + 1
    /\ UNCHANGED <<rect, calls, destroyed, jumps, screen>>

Frame == FrameAfter(FrameGaps)

(* A frame callback in which a callback of events throws: the exception  *)
(* leaves checkCollisions, update and gameLoop, so the rest of update    *)
(* and gameLoop's requestAnimationFrame are not reached                  *)
ThrowingFrame ==
    /\ ticks < MaxTicks
    /\ ~engine.state.isPaused /\ ~engine.state.isGameOver
    /\ \E id \in frames.pending, gap \in FrameGaps, kind \in ObstacleKinds :
         /\ Notifies(Moved([engine EXCEPT !.lastFrameTime = now + gap],
                           now + gap - engine.lastFrameTime, kind))
         /\ now' = now + gap
         /\ engine' = CheckCollisionsThrowing(
                          Moved([engine EXCEPT !.lastFrameTime = now + gap],
                                now + gap - engine.lastFrameTime, kind))
         /\ frames' = CancelAnimationFrame(frames, id)
         /\ released' = (released /\ engine'.player.isJumping)
         /\ spawns' = IF SpawnedObstacle(engine, engine') THEN spawns + 1 ELSE spawns
         /\ notified' = IF engine'.state.isGameOver
                        THEN Append(notified, Notice(engine', "frame"))
                        ELSE notified
         /\ lastOp' = [op |-> "frame", ran |-> "threw"]
    /\ ticks' = ticks + 1
    /\ UNCHANGED <<rect, calls, destroyed, jumps, screen>>

SlowFrame == FrameAfter(SlowGaps)

Next ==
    \/ Start
    \/ TogglePause
    \/ Jump
    \/ ReleaseJump
    \/ HandleResize
    \/ Destroy
    \/ Frame

Spec == Init /\ [][Next]_vars

(* The same engine on a page that renders slowly *)
NextSlow ==
    \/ Start
    \/ TogglePause
    \/ Jump
    \/ ReleaseJump
    \/ HandleResize
    \/ Destroy
    \/ SlowFrame

SpecSlow == Init /\ [][NextSlow]_vars

(* The engine with callbacks in events that throw when they are invoked *)
NextThrow ==
    \/ Start
    \/ Jump
    \/ Frame
    \/ ThrowingFrame

SpecThrow == Init /\ [][NextThrow]_vars

(* The engine driven by start(), togglePause() and frame callbacks only *)
NextLoop ==
    \/ Start
    \/ TogglePause
    \/ Frame

SpecLoop == Init /\ [][NextLoop]_vars

(* The engine constructed with the usual or with a high starting speed, *)
(* started, played and ticked                                          *)
InitFast == InitWith(Configs \cup FastConfigs)

NextFast ==
    \/ Start
    \/ Jump
    \/ Frame

SpecFast == InitFast /\ [][NextFast]_vars

(* The run clock alone: update's elapsedTimeMs += deltaTime, over a long run, *)
(* for the target gap that updateSpawning derives from it                  *)
Elapse ==
    /\ engine.elapsedTimeMs < MaxElapsedMs
    /\ \E deltaTime \in ClockSteps :
         engine' = [engine EXCEPT !.elapsedTimeMs = @ + deltaTime]
    /\ lastOp' = [op |-> "elapse", ran |-> "none"]
    /\ UNCHANGED <<frames, now, rect, calls, ticks, destroyed, jumps, spawns, notified, released, screen>>

SpecGap == Init /\ [][Elapse]_vars

(* The same engine constructed with a weak jump impulse *)
InitHop == InitWith(HopConfigs)

SpecHop == InitHop /\ [][Next]_vars

----------------------------------------------------------------------------
(* The presentation layer: GameCanvas polls getState(), GameScreen swaps the *)
(* canvas for the game-over screen, GameOverScreen saves the score           *)

GetStateReturnsState(e) == [taken |-> TRUE, alias |-> TRUE, value |-> e.state]

(* getState(): a new object holding the fields of state; alias tells whether *)
(* the returned object is the engine's own state object                      *)
GetState(e) == [taken |-> TRUE, alias |-> FALSE, value |-> e.state]

(* The 100 ms interval of GameCanvas: the snapshot goes to GameScreen *)
PollState ==
    /\ UNCHANGED <<engine, frames, now, rect, ticks, destroyed, jumps, spawns, notified, released, saved, overScreen>>
    /\ snapshot' = GetState(engine)
    /\ Called("getState", "none")

(* The fields a caller may write in the object getState() gave it *)
SnapshotWrites == {"score", "distance", "isPaused"}

Written(value, field) ==
    CASE field = "score" -> [value EXCEPT !.score = @ + 1000]
      [] field = "distance" -> [value EXCEPT !.distance = 0]
      [] field = "isPaused" -> [value EXCEPT !.isPaused = ~@]

(* The caller writes a field of the object it holds; the write reaches the *)
(* engine only if that object is the engine's own                          *)
MutateSnapshot ==
    /\ snapshot.taken
    /\ UNCHANGED <<frames, now, rect, ticks, destroyed, jumps, spawns, notified, released, saved, overScreen>>
    /\ \E field \in SnapshotWrites :
         /\ snapshot' = [snapshot EXCEPT !.value = Written(@, field)]
         /\ engine' = IF snapshot.alias
                       THEN [engine EXCEPT !.state = Written(@, field)]
                       ELSE engine
    /\ Called("mutateSnapshot", "none")

ShowsGameOverAlways(snap) == snap.taken

(* GameScreen renders GameOverScreen in place of GameCanvas *)
ShowsGameOver(snap) == snap.taken /\ snap.value.isGameOver

(* handleSaveScore's payload, from the gameState prop *)
ScoreData(value) ==
    [ score |-> value.score, coins |-> value.coins,
      distance |-> (value.distance \div SCALE) * SCALE ]

(* GameScreen shows the game-over screen: GameCanvas unmounts and its     *)
(* cleanup calls destroy(); GameOverScreen mounts and saves the score of  *)
(* a connected wallet once                                                *)
GameOverScreenMounts ==
    /\ ShowsGameOver(snapshot)
    /\ saved = << >>
    /\ ~overScreen.mounted
    /\ UNCHANGED <<now, rect, ticks, jumps, spawns, notified, released, snapshot>>
    /\ frames' = IF engine.animationFrameId # Null
                 THEN CancelAnimationFrame(frames, engine.animationFrameId)
                 ELSE frames
    /\ engine' = [engine EXCEPT !.state.isPlaying = FALSE]
    /\ destroyed' = TRUE
    /\ saved' = Append(saved, ScoreData(snapshot.value))
    /\ overScreen' = [NoGameOverScreen EXCEPT !.mounted = TRUE, !.wallet = TRUE,
                                        !.hasSaved = TRUE, !.autoSaves = 1,
                                        !.hasProgressed = TRUE, !.progressions = 1]
    /\ Called("saveScore", "none")

(* handleSaveScore(): nothing without a connected wallet; an error and no  *)
(* request when the store is not configured; else one saveScore request   *)
(* with the snapshot's result, which succeeds or fails                     *)
HandleSaveScore(o, sv, value, outcome, kind) ==
    IF ~o.wallet
    THEN [o |-> o, sv |-> sv]
    ELSE IF outcome = "unavailable"
    THEN [o |-> [o EXCEPT !.saveError = TRUE, !.failures = @ + 1], sv |-> sv]
    ELSE [o |-> [o EXCEPT !.saveError = (outcome = "failed"),
                          !.failures = IF outcome = "failed" THEN @ + 1 ELSE @,
                          !.autoSaves = IF kind = "auto" THEN @ + 1 ELSE @,
                          !.retries = IF kind = "retry" THEN @ + 1 ELSE @],
          sv |-> Append(sv, ScoreData(value))]

AutoSaveDueIgnoresRef(o) == o.wallet

(* The auto-save effect's guard: a wallet, not a guest, not yet saved *)
AutoSaveDue(o) == o.wallet /\ ~o.hasSaved

(* The progression effect: once per mounted screen, for a connected wallet *)
ProgressionEffect(o) ==
    IF o.wallet /\ ~o.hasProgressed
    THEN [o EXCEPT !.hasProgressed = TRUE, !.progressions = @ + 1]
    ELSE o

(* The screen's effects, run after a render: auto-save, then progression *)
Effects(o, sv, value, outcome) ==
    IF AutoSaveDue(o)
    THEN HandleSaveScore(ProgressionEffect([o EXCEPT !.hasSaved = TRUE]),
                         sv, value, outcome, "auto")
    ELSE [o |-> ProgressionEffect(o), sv |-> sv]

SaveOutcomes == {"saved", "failed", "unavailable"}

(* GameScreen shows the game-over screen to a guest: GameCanvas unmounts, *)
(* the screen mounts, its effects return at their guards                  *)
GameOverScreenMountsAsGuest ==
    /\ ShowsGameOver(snapshot)
    /\ ~overScreen.mounted
    /\ UNCHANGED <<now, rect, ticks, jumps, spawns, notified, released, snapshot, saved>>
    /\ frames' = IF engine.animationFrameId # Null
                 THEN CancelAnimationFrame(frames, engine.animationFrameId)
                 ELSE frames
    /\ engine' = [engine EXCEPT !.state.isPlaying = FALSE]
    /\ destroyed' = TRUE
    /\ overScreen' = [NoGameOverScreen EXCEPT !.mounted = TRUE]
    /\ Called("mountAsGuest", "none")

(* What the issued requests of the mounted screen are bounded by *)
ScreenActive ==
    /\ overScreen.mounted
    /\ Len(saved) < MaxSaves
    /\ overScreen.failures < MaxSaves

(* The mounted screen renders again (high score loaded, saving state, a *)
(* changed callback prop) and its effects run again                     *)
RunEffects ==
    /\ ScreenActive
    /\ \E outcome \in SaveOutcomes :
         /\ overScreen' = Effects(overScreen, saved, snapshot.value, outcome).o
         /\ saved' = Effects(overScreen, saved, snapshot.value, outcome).sv
    /\ lastOp' = [op |-> "runEffects", ran |-> "none"]
    /\ UNCHANGED <<engine, frames, now, rect, calls, ticks, destroyed, jumps, spawns,
                   notified, released, snapshot>>

(* A guest connects a wallet while the screen is mounted: walletAddress and *)
(* isGuest change, the screen renders and its effects run                   *)
ConnectWallet ==
    /\ ScreenActive
    /\ ~overScreen.wallet
    /\ \E outcome \in SaveOutcomes :
         /\ overScreen' = Effects([overScreen EXCEPT !.wallet = TRUE], saved, snapshot.value, outcome).o
         /\ saved' = Effects([overScreen EXCEPT !.wallet = TRUE], saved, snapshot.value, outcome).sv
    /\ lastOp' = [op |-> "connectWallet", ran |-> "none"]
    /\ UNCHANGED <<engine, frames, now, rect, calls, ticks, destroyed, jumps, spawns,
                   notified, released, snapshot>>

(* The Retry button, rendered while saveError is set, calls handleSaveScore *)
Retry ==
    /\ ScreenActive
    /\ overScreen.saveError
    /\ \E outcome \in SaveOutcomes :
         /\ overScreen' = HandleSaveScore(overScreen, saved, snapshot.value, outcome, "retry").o
         /\ saved' = HandleSaveScore(overScreen, saved, snapshot.value, outcome, "retry").sv
    /\ lastOp' = [op |-> "retry", ran |-> "none"]
    /\ UNCHANGED <<engine, frames, now, rect, calls, ticks, destroyed, jumps, spawns,
                   notified, released, snapshot>>

(* A run played to its end without pausing, and the game-over screen *)
NextOver ==
    \/ Start
    \/ Frame
    \/ PollState
    \/ GameOverScreenMounts
    \/ GameOverScreenMountsAsGuest
    \/ RunEffects
    \/ ConnectWallet
    \/ Retry

SpecOver == Init /\ [][NextOver]_vars

(* The keys and touches GameCanvas handles, the frames, and the screen *)
NextScreen ==
    \/ Start
    \/ TogglePause
    \/ Jump
    \/ Frame
    \/ PollState
    \/ MutateSnapshot
    \/ GameOverScreenMounts

(* The engine together with the presentation layer *)
SpecScreen == Init /\ [][NextScreen]_vars

----------------------------------------------------------------------------
(* The lifecycle states the flags stand for *)
Idle == ~engine.state.isPlaying /\ ~engine.state.isPaused /\ ~engine.state.isGameOver
Running == engine.state.isPlaying /\ ~engine.state.isPaused /\ ~engine.state.isGameOver
Paused == engine.state.isPlaying /\ engine.state.isPaused /\ ~engine.state.isGameOver
Ended == engine.state.isGameOver

(* The player's rectangle strictly overlaps the inset hitbox of some obstacle, *)
(* written out from the rectangles' edges                                      *)
PlayerHitsObstacle ==
    \E i \in 1..Len(engine.obstacles) :
        LET o == engine.obstacles[i]
            p == engine.player
            left == o.x + o.width \div 10
            right == left + (o.width * 8) \div 10
            top == o.y + o.height \div 20
            bottom == top + (o.height * 9) \div 10
        IN  /\ p.x < right /\ p.x + p.width > left
            /\ p.y < bottom /\ p.y + p.height > top

----------------------------------------------------------------------------
(* C1: in every reachable state, so at the end of every tick and right after *)
(* start(), score = floor(distance / 10) + coins * 10.                        *)
C1_ScoreFormula ==
    engine.state.score
        = engine.state.distance \div (10 * SCALE) + engine.state.coins * 10

(* C1 witness: a live tick has just ended with a coin collected and a *)
(* distance that is not a multiple of 10.                             *)
C1_Witness ==
    /\ lastOp = [op |-> "frame", ran |-> "update"]
    /\ engine.state.coins > 0
    /\ engine.state.distance % (10 * SCALE) # 0
    /\ engine.state.score > 10

(* C2: in every reachable state isGameOver implies not isPlaying. *)
C2_GameOverNotPlaying == engine.state.isGameOver => ~engine.state.isPlaying

(* C2 witness: a run ended by a collision, seen after the tick that ended it. *)
C2_Witness ==
    /\ engine.state.isGameOver
    /\ lastOp.op = "frame"
    /\ PlayerHitsObstacle

(* C3: when a tick that ran update() leaves the player overlapping an      *)
(* obstacle's hitbox, the state it leaves has isGameOver and not isPlaying. *)
C3_CollisionEndsRunInTick ==
    (lastOp.ran = "update" /\ PlayerHitsObstacle)
        => (engine.state.isGameOver /\ ~engine.state.isPlaying)

(* C3 witness: a frame's live tick detected the overlap and ended the run. *)
C3_Witness ==
    /\ lastOp = [op |-> "frame", ran |-> "update"]
    /\ PlayerHitsObstacle
    /\ engine.state.isGameOver
    /\ engine.postGameEffectTime = postGameMs

(* C4, as claimed: at most one frame callback is pending at any moment. *)
C4_AtMostOnePendingTick == Cardinality(frames.pending) <= 1

(* C5, as claimed: once destroy() was called and until start() is accepted, *)
(* isPlaying is false and no frame callback changes the engine.             *)
C5_DestroyStopsTicks ==
    [][ /\ destroyed' => ~engine'.state.isPlaying
        /\ (destroyed /\ ticks' # ticks) => engine' = engine ]_vars

(* C6: start() while isPlaying (Running or Paused) changes nothing of the *)
(* engine and schedules no frame.                                         *)
C6_StartWhilePlayingIsNoOp ==
    [][ (Start /\ engine.state.isPlaying)
            => (engine' = engine /\ frames' = frames /\ ticks' = ticks) ]_vars

(* C6 witness: a start() call was ignored while the engine was paused. *)
C6_Witness == lastOp.op = "startIgnored" /\ Paused

(* C7: jump() while Idle, Paused or Ended, and togglePause() while Idle or *)
(* Ended, change nothing of the engine and schedule no frame.              *)
C7_InvalidStateCallsAreNoOps ==
    [][ ( \/ (Jump /\ (Idle \/ Paused \/ Ended))
          \/ (TogglePause /\ (Idle \/ Ended)) )
            => (engine' = engine /\ frames' = frames /\ ticks' = ticks) ]_vars

(* C7 witness: a jump() call was ignored while the engine was paused. *)
C7_Witness == lastOp.op = "jumpIgnored" /\ Paused

(* C8: jump() while the player is airborne changes nothing of the engine. *)
C8_NoDoubleJump ==
    [][ (Jump /\ engine.player.isJumping)
            => (engine' = engine /\ frames' = frames) ]_vars

(* C8 witness: a jump() was ignored mid-air in a live run, after a tick had *)
(* already changed the velocity of the first jump.                          *)
C8_Witness ==
    /\ lastOp.op = "jumpIgnored"
    /\ Running
    /\ engine.player.isJumping
    /\ engine.player.y < engine.player.groundY
    /\ engine.player.velocityY # engine.config.jumpVelocity

(* C9: right after an accepted start() the engine is Running with zeroed *)
(* counters, initial speed, an empty world, zeroed timers and the player *)
(* at rest on the ground.                                                *)
C9_StartResets ==
    lastOp.op = "start" =>
        /\ engine.state = [ isPlaying |-> TRUE, isPaused |-> FALSE,
                            isGameOver |-> FALSE, score |-> 0, coins |-> 0,
                            distance |-> 0, speed |-> engine.config.initialSpeed ]
        /\ engine.gameSpeed = engine.config.initialSpeed
        /\ engine.obstacles = << >>
        /\ engine.coins = << >>
        /\ engine.obstacleSpawnTimer = 0
        /\ engine.coinSpawnTimer = 0
        /\ engine.speedLineTimer = 0
        /\ engine.elapsedTimeMs = 0
        /\ engine.obstacleDistanceSinceLast = 0
        /\ engine.player.y = engine.player.groundY
        /\ engine.player.velocityY = 0
        /\ ~engine.player.isJumping

(* C9 witness: start() was accepted again after earlier frames had run. *)
C9_Witness == lastOp.op = "start" /\ ticks >= 4 /\ calls >= 2

(* C10: a frame callback delivered while isPaused changes nothing of the *)
(* engine and requests no further frame.                                 *)
C10_PausedFrameDoesNothing ==
    [][ (Frame /\ engine.state.isPaused)
            => /\ engine' = engine
               /\ frames'.pending \subseteq frames.pending
               /\ frames'.nextId = frames.nextId ]_vars

(* C10 witness: a frame scheduled before the pause ran and returned at once. *)
C10_Witness == lastOp = [op |-> "frame", ran |-> "paused"] /\ frames.pending = {}

----------------------------------------------------------------------------
(* A step in which gameLoop ran update(): a frame delivered to a live *)
(* engine, or the tick that a resuming togglePause() runs itself      *)
LiveTick ==
    \/ (ticks' # ticks /\ lastOp'.ran = "update")
    \/ (calls' # calls /\ lastOp'.op = "resume")

(* C11: no step adds more to the elapsed run time than the clock time that *)
(* passed in it while the engine was not paused, nor more to the distance  *)
(* than the travel of that time; so a resume and the ticks after it count  *)
(* nothing of the time spent paused.                                       *)
C11_PauseAddsNoTime ==
    [][ LET live == IF engine.state.isPaused THEN 0 ELSE now' - now
        IN  /\ engine'.elapsedTimeMs - engine.elapsedTimeMs <= live
            /\ engine'.state.distance - engine.state.distance
                   <= Travel(engine.gameSpeed, live) ]_vars

(* C11 witness: a run that had already run for a while was resumed after *)
(* clock time had passed in the pause.                                   *)
C11_Witness ==
    /\ lastOp.op = "resume"
    /\ engine.elapsedTimeMs > 0
    /\ engine.elapsedTimeMs < now
    /\ engine.lastFrameTime = now

(* C12: once the run has ended, every step other than an accepted start()   *)
(* (and a resize, which the claim does not list) leaves score, coins,       *)
(* distance, speed, the flags, the player and the entities as they were:    *)
(* later ticks, jump(), togglePause(), releaseJump() and destroy(); and the *)
(* cosmetic timers only go down.                                            *)
C12_EndedRunIsFrozen ==
    [][ (engine.state.isGameOver /\ lastOp'.op \notin {"start", "handleResize"})
            => /\ engine'.state = engine.state
               /\ engine'.player = engine.player
               /\ engine'.obstacles = engine.obstacles
               /\ engine'.coins = engine.coins
               /\ engine'.gameSpeed = engine.gameSpeed
               /\ engine'.elapsedTimeMs = engine.elapsedTimeMs
               /\ engine'.screenShakeTime <= engine.screenShakeTime
               /\ engine'.screenFlashTime <= engine.screenFlashTime
               /\ engine'.postGameEffectTime <= engine.postGameEffectTime ]_vars

(* C12 witness: a tick of the post-end effect window has run on an ended *)
(* run that had travelled and still holds its obstacles.                 *)
C12_Witness ==
    /\ lastOp = [op |-> "frame", ran |-> "effects"]
    /\ engine.state.isGameOver
    /\ engine.state.distance > 0
    /\ engine.obstacles # << >>
    /\ engine.postGameEffectTime < postGameMs

(* C13: within one run, that is across every step other than an accepted *)
(* start(), distance, speed, coins and score never decrease.             *)
C13_CountersNeverDecrease ==
    [][ lastOp'.op # "start"
            => /\ engine'.state.distance >= engine.state.distance
               /\ engine'.gameSpeed >= engine.gameSpeed
               /\ engine'.state.speed >= engine.state.speed
               /\ engine'.state.coins >= engine.state.coins
               /\ engine'.state.score >= engine.state.score ]_vars

(* C13 witness: a live tick has ended in a run that has collected a coin *)
(* and has gained speed.                                                 *)
C13_Witness ==
    /\ lastOp = [op |-> "frame", ran |-> "update"]
    /\ Running
    /\ engine.state.coins > 0
    /\ engine.gameSpeed > engine.config.initialSpeed
    /\ engine.state.speed = engine.gameSpeed

(* C14, as claimed: every live tick, from the first on, adds the configured *)
(* speedIncrement to the speed.                                             *)
C14_SpeedGrowsEveryTick ==
    [][ LiveTick
            => engine'.gameSpeed = engine.gameSpeed + engine.config.speedIncrement ]_vars

(* C14, amended: a live tick that ends with distance below 5000 leaves the *)
(* speed as it was; a later one adds speedIncrement * (0.35 + 0.65 * ramp) *)
(* with ramp = min(1, (distance - 5000) / 3000), so between 35% and 100%   *)
(* of the increment; state.speed follows gameSpeed.                        *)
C14_SpeedRampsAfterThreshold ==
    [][ LiveTick
            => LET d == engine'.state.distance
                   gain == engine'.gameSpeed - engine.gameSpeed
                   inc == engine.config.speedIncrement
                   over == d - rampStartDistance * SCALE
               IN  /\ d < rampStartDistance * SCALE => gain = 0
                   /\ d >= rampStartDistance * SCALE =>
                        /\ gain = (inc * (3500 + (6500 * Min(SCALE, over \div rampSpanDistance))
                                                    \div SCALE)) \div SCALE
                        /\ gain * 100 > inc * 35 - 100
                        /\ gain <= inc
                   /\ over >= rampSpanDistance * SCALE => gain = inc
                   /\ engine'.state.speed = engine'.gameSpeed ]_vars

(* C14 witness: a live tick has ended past the distance threshold inside the *)
(* ramp, so the run has gained speed, but less than one whole increment.     *)
C14_Witness ==
    /\ lastOp = [op |-> "frame", ran |-> "update"]
    /\ engine.state.distance >= rampStartDistance * SCALE
    /\ engine.state.distance < (rampStartDistance + rampSpanDistance) * SCALE
    /\ engine.gameSpeed > engine.config.initialSpeed
    /\ engine.gameSpeed < engine.config.initialSpeed + engine.config.speedIncrement

(* C15: in every reachable state the player's y is at most groundY, and a *)
(* tick that brings the player to the ground leaves y = groundY, zero     *)
(* vertical velocity and the airborne flag off.                           *)
C15_PlayerNeverBelowGround ==
    /\ engine.player.y <= engine.player.groundY
    /\ (lastOp.ran = "update" /\ engine.player.y = engine.player.groundY)
           => (engine.player.velocityY = 0 /\ ~engine.player.isJumping)

(* C15 witness: a frame's tick has landed the player after a jump of the *)
(* running run.                                                          *)
C15_Witness ==
    /\ lastOp = [op |-> "frame", ran |-> "update"]
    /\ Running
    /\ jumps > 0
    /\ ~engine.player.isJumping
    /\ engine.player.y = engine.player.groundY
    /\ engine.player.velocityY = 0

(* C16, as claimed: with the default configuration an accepted jump() sets *)
(* the velocity to -15, and every airborne tick after it adds exactly the  *)
(* gravity 0.6, whatever its deltaTime.                                    *)
C16_GravityAddedEveryTick ==
    [][ /\ (calls' # calls /\ lastOp'.op = "jump")
               => engine'.player.velocityY = -15 * SCALE
        /\ (LiveTick /\ engine'.player.isJumping)
               => engine'.player.velocityY
                      = engine.player.velocityY + (6 * SCALE) \div 10 ]_vars

(* C16, amended: with the default configuration an accepted jump() sets the *)
(* velocity to -13.5; an airborne tick adds 35% of the gravity 0.65 while   *)
(* the jump is held (not released, held for less than 180 ms so far) and    *)
(* the whole gravity otherwise.                                             *)
C16_GravityReducedWhileHeld ==
    [][ /\ (calls' # calls /\ lastOp'.op = "jump")
               => engine'.player.velocityY = -((135 * SCALE) \div 10)
        /\ (LiveTick /\ engine'.player.isJumping)
               => LET held == engine.jumpHoldActive /\ engine.jumpHoldTime < maxJumpHoldMs
                      g == (65 * SCALE) \div 100
                  IN  engine'.player.velocityY
                          = engine.player.velocityY
                              + (IF held THEN (g * 35) \div 100 ELSE g) ]_vars

(* C16 witness: the player is airborne after ticks of both kinds: at least *)
(* one with the held jump's reduced gravity and one with the whole gravity *)
C16_Witness ==
    /\ lastOp = [op |-> "frame", ran |-> "update"]
    /\ engine.player.isJumping
    /\ \E held \in 1..MaxTicks, free \in 1..MaxTicks :
         engine.player.velocityY
             = -((135 * SCALE) \div 10) + held * ((65 * SCALE * 35) \div (100 * 100))
                 + free * ((65 * SCALE) \div 100)

(* C17, as claimed: a live tick that began with elapsed run time below *)
(* 2600 ms or with distance below 180 ends with no obstacle in the     *)
(* world.                                                              *)
C17_NoObstacleInTickBegunInGrace ==
    [][ ( /\ LiveTick
          /\ \/ engine.elapsedTimeMs < gracePeriodMs
             \/ engine.state.distance < graceDistance * SCALE )
            => engine'.obstacles = << >> ]_vars

(* C17, amended: a live tick whose elapsed run time, its own deltaTime *)
(* included, is below 2600 ms, or that began with distance below 180,  *)
(* ends with no obstacle in the world; and every state that holds an   *)
(* obstacle has elapsed run time of at least 2600 ms and distance of   *)
(* at least 180.                                                       *)
C17_NoObstacleBeforeGraceEnds ==
    [][ /\ ( /\ LiveTick
             /\ \/ engine'.elapsedTimeMs < gracePeriodMs
                \/ engine.state.distance < graceDistance * SCALE )
               => engine'.obstacles = << >>
        /\ engine'.obstacles # << >>
               => /\ engine'.elapsedTimeMs >= gracePeriodMs
                  /\ engine'.state.distance >= graceDistance * SCALE ]_vars

(* C17 witness: a live tick has ended with the time threshold cleared and  *)
(* more travelled than the widest obstacle gap, yet the world is empty and *)
(* the gap accumulator untouched: the tick began below the distance        *)
(* threshold.                                                              *)
C17_Witness ==
    /\ lastOp = [op |-> "frame", ran |-> "update"]
    /\ engine.elapsedTimeMs >= gracePeriodMs
    /\ engine.state.distance >= gapEarly * SCALE
    /\ engine.obstacles = << >>
    /\ engine.obstacleDistanceSinceLast = 0

(* C18, as claimed: coins are spawned on every coinSpawnRate-th tick counted *)
(* from start(); when exactly coinSpawnRate frames have been delivered to a  *)
(* run on which nothing but start() was called, the world holds exactly one  *)
(* coin.                                                                     *)
C18_CoinEveryRateTicksFromStart ==
    (calls = 1 /\ lastOp = [op |-> "frame", ran |-> "update"]
               /\ ticks = engine.config.coinSpawnRate)
        => Len(engine.coins) = 1

(* The number of coins of a world e that are marked collected *)
CollectedIn(e) == Cardinality({ i \in 1..Len(e.coins) : e.coins[i].collected })

(* C19: a coin is collected at most once. After every live tick the coins   *)
(* marked collected in the world are exactly the ones the tick collected,   *)
(* one for each unit the coin counter rose by: the coins collected earlier  *)
(* were pruned before the tick looked for overlaps. No other step, but an   *)
(* accepted start(), changes the coins or the counter.                      *)
C19_CoinCollectedOnce ==
    [][ /\ LiveTick
            => /\ engine'.state.coins >= engine.state.coins
               /\ CollectedIn(engine') = engine'.state.coins - engine.state.coins
               /\ CollectedIn(engine') <= Len(engine.coins) - CollectedIn(engine) + 1
        /\ (~LiveTick /\ lastOp'.op # "start")
            => /\ engine'.state.coins = engine.state.coins
               /\ engine'.coins = engine.coins ]_vars

(* C19 witness: a live tick has ended in a run that collected a coin on an *)
(* earlier tick; the collected coin is gone from the world.                *)
C19_Witness ==
    /\ lastOp = [op |-> "frame", ran |-> "update"]
    /\ engine.state.coins > 0
    /\ CollectedIn(engine) = 0

(* The player's rectangle strictly overlaps the whole drawn rectangle of *)
(* some obstacle                                                         *)
PlayerOverlapsDrawnObstacle ==
    \E i \in 1..Len(engine.obstacles) :
        LET o == engine.obstacles[i]
            p == engine.player
        IN  /\ p.x < o.x + o.width /\ p.x + p.width > o.x
            /\ p.y < o.y + o.height /\ p.y + p.height > o.y

(* C20: a tick that ran update() leaves the run ended if and only if it   *)
(* leaves the player's rectangle strictly overlapping the inset hitbox of *)
(* some obstacle; an overlap with the drawn rectangle alone, or a shared  *)
(* edge, does not end the run.                                            *)
C20_RunEndsIffHitboxOverlap ==
    lastOp.ran = "update" => (engine.state.isGameOver <=> PlayerHitsObstacle)

(* C20 witness: a frame's live tick has ended with the player inside the *)
(* drawn rectangle of an obstacle but outside its hitbox, and the run    *)
(* goes on.                                                              *)
C20_Witness ==
    /\ lastOp = [op |-> "frame", ran |-> "update"]
    /\ Running
    /\ PlayerOverlapsDrawnObstacle
    /\ ~PlayerHitsObstacle

(* C21: getState() changes nothing of the engine and returns the engine's  *)
(* current state values, also after the caller wrote to an object returned *)
(* earlier; such a write changes nothing of the engine, so nothing of what *)
(* the engine does next.                                                   *)
C21_GetStateIsACopy ==
    [][ /\ (calls' # calls /\ lastOp'.op = "getState")
            => /\ engine' = engine /\ frames' = frames
               /\ snapshot'.value = engine.state
        /\ (calls' # calls /\ lastOp'.op = "mutateSnapshot")
            => (engine' = engine /\ frames' = frames) ]_vars

(* C21 witness: the caller has written into a snapshot of a started run, *)
(* which now differs from the engine's state.                            *)
C21_Witness ==
    /\ lastOp.op = "mutateSnapshot"
    /\ engine.state.isPlaying
    /\ snapshot.value # engine.state
    /\ snapshot.value.isPlaying

(* C22, as claimed: a tick in which a callback of events threw still ends *)
(* with the score recomputed from distance and coins, and with the next   *)
(* frame requested.                                                       *)
C22_FailedCallbackIsolated ==
    lastOp.ran = "threw"
        => /\ engine.state.score
                  = engine.state.distance \div (10 * SCALE) + engine.state.coins * 10
           /\ engine.animationFrameId \in frames.pending

(* C23, as claimed: in every reachable state the flags isPlaying, isPaused *)
(* and isGameOver form one of the four lifecycle states Idle, Running,     *)
(* Paused or Ended.                                                        *)
C23_FlagsAreALifecycleState ==
    \/ Idle
    \/ Running
    \/ Paused
    \/ Ended /\ ~engine.state.isPlaying /\ ~engine.state.isPaused

(* C24: a score record is issued only by the game-over screen, which is shown *)
(* only for a polled getState() snapshot whose isGameOver is true, and the    *)
(* record holds that snapshot's score, coins and whole distance; no engine    *)
(* operation and no tick issues one.                                          *)
C24_SavedOnlyFromEndedSnapshot ==
    [][ saved' # saved
          => /\ lastOp'.op = "saveScore"
             /\ snapshot.taken /\ snapshot.value.isGameOver
             /\ saved' = Append(saved, [score |-> snapshot.value.score,
                                        coins |-> snapshot.value.coins,
                                        distance |-> (snapshot.value.distance \div SCALE) * SCALE])
             /\ engine'.state.score = engine.state.score
             /\ engine'.state.coins = engine.state.coins
             /\ engine'.state.distance = engine.state.distance ]_vars

C24_Witness ==
    /\ lastOp.op = "saveScore"
    /\ Len(saved) = 1
    /\ saved[1].score > 0
    /\ Ended

(* C25: after the run has ended every frame takes its positive deltaTime off *)
(* the remaining post-end window; while some of the window remains exactly   *)
(* one next frame is requested, and the frame that uses the window up        *)
(* requests none, clears the frame id and leaves fewer frames pending than   *)
(* before: none when the loop's own frame was the only one pending.          *)
C25_LoopStopsAfterEffectWindow ==
    [][ (ticks' # ticks /\ lastOp'.ran = "effects")
          => /\ now' > engine.lastFrameTime
             /\ engine'.postGameEffectTime
                    = Max(0, engine.postGameEffectTime - (now' - engine.lastFrameTime))
             /\ engine.postGameEffectTime > 0
                    => engine'.postGameEffectTime < engine.postGameEffectTime
             /\ engine'.postGameEffectTime > 0
                    => /\ frames'.nextId = frames.nextId + 1
                       /\ frames.nextId \in frames'.pending
             /\ engine'.postGameEffectTime = 0
                    => /\ frames'.nextId = frames.nextId
                       /\ engine'.animationFrameId = Null
                       /\ frames'.pending \subseteq frames.pending
                       /\ frames'.pending # frames.pending
                       /\ Cardinality(frames.pending) = 1 => frames'.pending = {} ]_vars

C25_Witness ==
    /\ lastOp = [op |-> "frame", ran |-> "effects"]
    /\ Ended
    /\ ~destroyed
    /\ engine.postGameEffectTime = 0
    /\ engine.animationFrameId = Null
    /\ frames.pending = {}

(* C26: a live tick adds 0.35 x gravity to the vertical velocity exactly   *)
(* when, before it, the player is airborne, releaseJump() has not been     *)
(* called since the jump() of this airborne period and the hold time is    *)
(* below 180 ms, and then counts the tick's deltaTime as hold time; every  *)
(* other tick that leaves the player airborne adds the full gravity and    *)
(* leaves the hold time alone; landing clears the hold flag and hold time. *)
C26_ReducedGravityOnlyWhileHeld ==
    [][ LiveTick
          => LET held == /\ engine.player.isJumping
                         /\ ~released
                         /\ engine.jumpHoldTime < maxJumpHoldMs
                 dt == engine'.elapsedTimeMs - engine.elapsedTimeMs
             IN  /\ engine'.player.isJumping
                      => /\ engine.player.isJumping
                         /\ engine'.player.velocityY - engine.player.velocityY
                              = IF held THEN (engine.config.gravity * 35) \div 100
                                ELSE engine.config.gravity
                         /\ engine'.jumpHoldTime
                              = IF held THEN engine.jumpHoldTime + dt
                                ELSE engine.jumpHoldTime
                         /\ engine'.jumpHoldActive = ~released
                 /\ ~engine'.player.isJumping
                      => /\ ~engine'.jumpHoldActive
                         /\ engine'.jumpHoldTime = 0
                         /\ ~released' ]_vars

C26_Witness ==
    /\ lastOp = [op |-> "frame", ran |-> "update"]
    /\ released
    /\ engine.player.isJumping
    /\ engine.jumpHoldTime > 0
    /\ engine.jumpHoldTime < maxJumpHoldMs
    /\ engine.player.velocityY
         = engine.config.jumpVelocity + (engine.config.gravity * 35) \div 100
              + engine.config.gravity

(* C27: a live tick spawns an obstacle only after the grace period and only *)
(* when the travel accumulated since the previous spawn, this tick's        *)
(* included, is at least the larger of the target gap and the floor of 260; *)
(* it then resets the accumulator to 0. A tick after grace that does not    *)
(* spawn keeps the accumulated travel, which is below that gap; a tick in   *)
(* grace leaves the accumulator alone.                                      *)
C27_SpawnOnlyAtGap ==
    [][ LiveTick
          => LET dt == engine'.elapsedTimeMs - engine.elapsedTimeMs
                 grace == \/ engine'.elapsedTimeMs < gracePeriodMs
                          \/ engine.state.distance < Px(graceDistance)
                 acc == engine.obstacleDistanceSinceLast
                          + (engine.gameSpeed * dt) \div frameBaseMs
                 gap == Max(TargetGap(engine'.elapsedTimeMs), Px(gapFloor))
             IN  /\ gap >= Px(gapFloor)
                 /\ SpawnedObstacle(engine, engine')
                      => /\ ~grace
                         /\ acc >= gap
                         /\ engine'.obstacleDistanceSinceLast = 0
                 /\ (~SpawnedObstacle(engine, engine') /\ ~grace)
                      => /\ acc < gap
                         /\ engine'.obstacleDistanceSinceLast = acc
                 /\ grace
                      => engine'.obstacleDistanceSinceLast
                           = engine.obstacleDistanceSinceLast ]_vars

C27_Witness ==
    /\ lastOp = [op |-> "frame", ran |-> "update"]
    /\ SpawnedObstacle(engine, engine)
    /\ engine.obstacleDistanceSinceLast = 0
    /\ engine.elapsedTimeMs >= gracePeriodMs
    /\ engine.state.distance >= Px(gapFloor)

(* C28: the target gap never rises as the run clock advances; it is 520    *)
(* until the end of grace, 380 at 14000 ms after grace, 300 at 42000 ms    *)
(* after grace, 260 from 77000 ms after grace on, and between 260 and 520  *)
(* at every time.                                                          *)
C28_TargetGapNeverRises ==
    [][ engine'.elapsedTimeMs > engine.elapsedTimeMs
          => LET t == engine'.elapsedTimeMs
                 since == t - gracePeriodMs
             IN  /\ TargetGap(t) <= TargetGap(engine.elapsedTimeMs)
                 /\ TargetGap(t) >= Px(gapFloor)
                 /\ TargetGap(t) <= Px(gapEarly)
                 /\ since <= 0 => TargetGap(t) = Px(gapEarly)
                 /\ since > 0 => TargetGap(t) < Px(gapEarly)
                 /\ since < earlyRampMs => TargetGap(t) > Px(gapMid)
                 /\ since = earlyRampMs => TargetGap(t) = Px(gapMid)
                 /\ (since > earlyRampMs /\ since < midRampMs)
                      => (TargetGap(t) < Px(gapMid) /\ TargetGap(t) > Px(gapLate))
                 /\ since = midRampMs => TargetGap(t) = Px(gapLate)
                 /\ (since > midRampMs /\ since < midRampMs + lateRampMs)
                      => (TargetGap(t) < Px(gapLate) /\ TargetGap(t) > Px(gapFloor))
                 /\ since >= midRampMs + lateRampMs => TargetGap(t) = Px(gapFloor) ]_vars

C28_Witness ==
    /\ lastOp.op = "elapse"
    /\ engine.elapsedTimeMs > gracePeriodMs + midRampMs + lateRampMs
    /\ TargetGap(engine.elapsedTimeMs) = Px(gapFloor)
    /\ TargetGap(gracePeriodMs + midRampMs) = Px(gapLate)

(* C29: after every live tick no obstacle and no coin has its trailing edge *)
(* at or left of x = 0; the obstacles are those of before that are still    *)
(* on screen once moved left by the world speed, in order, followed by the  *)
(* one spawned in the tick if any; the coins are the uncollected coins of   *)
(* before that are still on screen once moved left by the world speed,      *)
(* followed by the one spawned if any, and those marked collected are the   *)
(* ones the tick counted.                                                   *)
C29_WorldMovedAndPruned ==
    [][ LiveTick
          => LET v == engine.gameSpeed
                 Left(r) == [r EXCEPT !.x = @ - v]
                 OnScreen(r) == r.x + r.width > 0
                 Uncollected(c) == ~c.collected
                 live == SelectSeq(engine.coins, Uncollected)
                 keptO == SelectSeq([i \in 1..Len(engine.obstacles) |->
                                       Left(engine.obstacles[i])], OnScreen)
                 keptC == SelectSeq([i \in 1..Len(live) |-> Left(live[i])], OnScreen)
                 no == Len(engine'.obstacles)
                 nc == Len(engine'.coins)
             IN  /\ \A i \in 1..no : engine'.obstacles[i].x + engine'.obstacles[i].width > 0
                 /\ \A i \in 1..nc : engine'.coins[i].x + engine'.coins[i].width > 0
                 /\ no \in {Len(keptO), Len(keptO) + 1}
                 /\ \A i \in 1..Len(keptO) : engine'.obstacles[i] = keptO[i]
                 /\ no > Len(keptO) => engine'.obstacles[no].x = engine.canvasWidth - v
                 /\ nc \in {Len(keptC), Len(keptC) + 1}
                 /\ \A i \in 1..Len(keptC) :
                        [engine'.coins[i] EXCEPT !.collected = FALSE] = keptC[i]
                 /\ nc > Len(keptC) => engine'.coins[nc].x = engine.canvasWidth - v
                 /\ CollectedIn(engine') = engine'.state.coins - engine.state.coins ]_vars

C29_Witness ==
    /\ lastOp = [op |-> "frame", ran |-> "update"]
    /\ Running
    /\ spawns > Len(engine.obstacles)
    /\ engine.gameSpeed >= engine.config.initialSpeed

(* C30: a live tick that ends the run by an obstacle hit collects no coin: *)
(* the coin counter keeps its value and no coin of the world is marked     *)
(* collected, also when the player overlaps an uncollected coin.           *)
C30_HitCollectsNoCoin ==
    [][ (LiveTick /\ engine'.state.isGameOver /\ ~engine.state.isGameOver)
          => /\ engine'.state.coins = engine.state.coins
             /\ CollectedIn(engine') = 0 ]_vars

C30_Witness ==
    /\ lastOp.ran = "update"
    /\ Ended
    /\ PlayerHitsObstacle
    /\ \E i \in 1..Len(engine.coins) :
         /\ ~engine.coins[i].collected
         /\ IsColliding(engine.player, engine.coins[i])

(* C31: a live tick in which the player hits no obstacle does not end the  *)
(* run and collects every uncollected coin that overlaps the player: after *)
(* it the coins marked collected are exactly the coins overlapping the     *)
(* player, and the coin counter has risen by their number.                 *)
C31_EveryOverlappingCoinCollected ==
    [][ (LiveTick /\ ~PlayerHitsObstacle')
          => /\ ~engine'.state.isGameOver
             /\ \A i \in 1..Len(engine'.coins) :
                    engine'.coins[i].collected
                        <=> IsColliding(engine'.player, engine'.coins[i])
             /\ engine'.state.coins - engine.state.coins
                    = Cardinality({ i \in 1..Len(engine'.coins) :
                                      IsColliding(engine'.player, engine'.coins[i]) }) ]_vars

C31_Witness ==
    /\ lastOp.ran = "update"
    /\ Running
    /\ CollectedIn(engine) >= 2

(* C32, as claimed: the spawner lowers config.obstacleSpawnRate as obstacles *)
(* are spawned, so once an obstacle has been spawned in a run the rate is    *)
(* below the value the engine was constructed with.                          *)
C32_SpawnRateTunedDown ==
    spawns > 0 => engine.config.obstacleSpawnRate < DefaultConfig.obstacleSpawnRate

(* C32: no field of config changes after construction, obstacleSpawnRate *)
(* included: config is always the configuration the engine was built     *)
(* with, whatever was spawned.                                           *)
C32_ConfigNeverChanges ==
    /\ engine.config \in Configs
    /\ engine.config.obstacleSpawnRate = DefaultConfig.obstacleSpawnRate

C32_Witness ==
    /\ lastOp.ran = "update"
    /\ spawns >= 2
    /\ engine.config.obstacleSpawnRate = DefaultConfig.obstacleSpawnRate

(* C33, as claimed: resuming from pause does not advance the simulation:   *)
(* the resuming togglePause() leaves the player, the obstacles, the coins, *)
(* the spawn timers, the coin counter, distance and speed as the pause     *)
(* left them.                                                              *)
C33_ResumeAdvancesNothing ==
    [][ (calls' # calls /\ lastOp'.op = "resume")
          => /\ engine'.player = engine.player
             /\ engine'.obstacles = engine.obstacles
             /\ engine'.coins = engine.coins
             /\ engine'.coinSpawnTimer = engine.coinSpawnTimer
             /\ engine'.obstacleDistanceSinceLast = engine.obstacleDistanceSinceLast
             /\ engine'.state.coins = engine.state.coins
             /\ engine'.state.distance = engine.state.distance
             /\ engine'.gameSpeed = engine.gameSpeed ]_vars

(* C34, as claimed: whenever the engine is Running, exactly one frame *)
(* callback, the next tick, is pending.                               *)
C34_RunningHasExactlyOnePendingTick ==
    Running => Cardinality(frames.pending) = 1

(* C35, as claimed: the state of a run that ended by collision is reset by *)
(* start() only after a getState() poll has returned it with isGameOver    *)
(* true.                                                                   *)
C35_EndedRunSeenBeforeReset ==
    [][ (calls' # calls /\ lastOp'.op = "start" /\ engine.state.isGameOver)
          => (snapshot.taken /\ snapshot.value.isGameOver) ]_vars

(* C36, as claimed: while the engine is Ended, getState() returns the score, *)
(* coins and distance that a getState() call made inside the run's           *)
(* onGameOver notification returned.                                         *)
C36_GameOverNoticeIsFinal ==
    (Ended /\ notified # << >>)
        => /\ notified[Len(notified)].score = engine.state.score
           /\ notified[Len(notified)].coins = engine.state.coins
           /\ notified[Len(notified)].distance = engine.state.distance

(* C37, as claimed: onGameOver is invoked exactly once for a run that ended *)
(* by collision and not at all before, and never from inside a control      *)
(* call: only a frame callback's tick invokes it.                           *)
C37_GameOverNotifiedOnceByATick ==
    /\ Ended => Len(notified) = 1
    /\ ~Ended => notified = << >>
    /\ \A i \in 1..Len(notified) : notified[i].by = "frame"

(* C38: in every reachable state a player that is not airborne stands on *)
(* the ground and has no vertical velocity.                              *)
C38_GroundedPlayerRests ==
    ~engine.player.isJumping
        => /\ engine.player.y = engine.player.groundY
           /\ engine.player.velocityY = 0

C38_Witness ==
    /\ lastOp = [op |-> "frame", ran |-> "update"]
    /\ engine.state.isPlaying
    /\ jumps > 0
    /\ ~engine.player.isJumping
    /\ engine.player.groundY # GroundYOf(FirstRect)
    /\ engine.player.y = engine.player.groundY

(* C39, as claimed: in every reachable state every obstacle of the world *)
(* has y equal to the player's current groundY.                          *)
C39_ObstaclesOnGroundLevel ==
    \A i \in 1..Len(engine.obstacles) :
        engine.obstacles[i].y = engine.player.groundY

(* C40: one mounted game-over screen issues the automatic save at most     *)
(* once and the progression increment at most once, however often its      *)
(* effects run; every other save request was made by Retry, each after a   *)
(* save that had failed, and a guest's screen issues nothing.              *)
C40_AutoSaveAndProgressionOnce ==
    /\ overScreen.autoSaves <= 1
    /\ overScreen.progressions <= 1
    /\ Len(saved) = overScreen.autoSaves + overScreen.retries
    /\ overScreen.retries <= overScreen.failures
    /\ overScreen.autoSaves > 0 => overScreen.hasSaved
    /\ ~overScreen.wallet => (saved = << >> /\ overScreen.progressions = 0)

C40_Witness ==
    /\ lastOp.op = "runEffects"
    /\ overScreen.autoSaves = 1
    /\ overScreen.retries = 1
    /\ overScreen.progressions = 1
    /\ ~overScreen.saveError
    /\ Len(saved) = 2

====
